---- MODULE Spec2Model ----
(***************************************************************************)
(* Model of flow_analyzer.py: LogAnalyzer builds a rule index from a       *)
(* lookup table (parse_lookup_table), classifies flow-log records against  *)
(* it (log_parser) and renders the counts (write_results).                 *)
(*                                                                         *)
(* Text is modelled as sequences of one-character strings, so that         *)
(* strip(), split(), lower(), int() and the f-string formatting are        *)
(* computed character by character as Python computes them.                *)
(***************************************************************************)
EXTENDS Integers, Sequences, FiniteSets, TLC

(***************************************************************************)
(* Bounds of the model.                                                    *)
(***************************************************************************)
\* most lines a lookup-table file holds
MaxLookupLines == 3
\* most lines a flow-log file holds
MaxLogLines == 3

(***************************************************************************)
(* Characters and the str methods the program uses.                        *)
(***************************************************************************)
\* the characters of the model's texts, in code-point order
Chars ==
  << " ", "+", ",", "-",
     "0", "1", "2", "3", "4", "5", "6", "7", "8", "9",
     "A", "B", "C", "D", "E", "F", "G", "H", "I", "J", "K", "L", "M",
     "N", "O", "P", "Q", "R", "S", "T", "U", "V", "W", "X", "Y", "Z",
     "_",
     "a", "b", "c", "d", "e", "f", "g", "h", "i", "j", "k", "l", "m",
     "n", "o", "p", "q", "r", "s", "t", "u", "v", "w", "x", "y", "z" >>

CharSet == {Chars[i] : i \in 1..Len(Chars)}

\* ord(c), up to an order-preserving renumbering
Ord == [c \in CharSet |-> CHOOSE i \in 1..Len(Chars) : Chars[i] = c]

Digits == <<"0", "1", "2", "3", "4", "5", "6", "7", "8", "9">>

IsDigit(c) == \E i \in 1..Len(Digits) : Digits[i] = c

DigitVal(c) == (CHOOSE i \in 1..Len(Digits) : Digits[i] = c) - 1

UpperCase == {Chars[i] : i \in Ord["A"]..Ord["Z"]}

\* str.lower() on one character
LowerChar(c) ==
  IF c \in UpperCase THEN Chars[Ord[c] - Ord["A"] + Ord["a"]] ELSE c

\* str.lower()
Lower(s) == [i \in 1..Len(s) |-> LowerChar(s[i])]

IsSpace(c) == c = " "

RECURSIVE LStrip(_)
LStrip(s) ==
  IF s # <<>> /\ IsSpace(Head(s)) THEN LStrip(Tail(s)) ELSE s

RECURSIVE RStrip(_)
RStrip(s) ==
  IF s # <<>> /\ IsSpace(s[Len(s)]) THEN RStrip(SubSeq(s, 1, Len(s) - 1)) ELSE s

\* str.strip()
Strip(s) == RStrip(LStrip(s))

\* s.find(sep, i): the first place at or after i that holds sep, or 0
RECURSIVE Find(_, _, _)
Find(s, sep, i) ==
  IF i > Len(s) THEN 0
  ELSE IF s[i] = sep THEN i
  ELSE Find(s, sep, i + 1)

\* str.split(sep): every separator cuts, empty fields are kept
RECURSIVE SplitOn(_, _)
SplitOn(s, sep) ==
  LET i == Find(s, sep, 1)
  IN  IF i = 0 THEN <<s>>
      ELSE <<SubSeq(s, 1, i - 1)>> \o SplitOn(SubSeq(s, i + 1, Len(s)), sep)

\* str.split(): runs of whitespace cut, empty fields are dropped
RECURSIVE SplitWs(_)
SplitWs(s) ==
  LET t == LStrip(s)
      i == Find(t, " ", 1)
  IN  IF t = <<>> THEN <<>>
      ELSE IF i = 0 THEN <<t>>
      ELSE <<SubSeq(t, 1, i - 1)>> \o SplitWs(SubSeq(t, i + 1, Len(t)))

\* the digits and underscores of an int() literal, its sign removed
Unsigned(s) ==
  LET t == Strip(s)
  IN  IF t # <<>> /\ t[1] \in {"+", "-"} THEN Tail(t) ELSE t

\* int(s) does not raise ValueError: [sign] digit (["_"] digit)*
IsIntLiteral(s) ==
  LET b == Unsigned(s)
  IN  /\ b # <<>>
      /\ \A i \in 1..Len(b) : IsDigit(b[i]) \/ b[i] = "_"
      /\ IsDigit(b[1])
      /\ IsDigit(b[Len(b)])
      /\ \A i \in 1..(Len(b) - 1) : ~(b[i] = "_" /\ b[i + 1] = "_")

RECURSIVE DigitsValue(_, _)
DigitsValue(b, acc) ==
  IF b = <<>> THEN acc
  ELSE IF Head(b) = "_" THEN DigitsValue(Tail(b), acc)
  ELSE DigitsValue(Tail(b), 10 * acc + DigitVal(Head(b)))

\* int(s), for a literal int() accepts
IntOf(s) ==
  LET t == Strip(s)
      v == DigitsValue(Unsigned(s), 0)
  IN  IF t[1] = "-" THEN 0 - v ELSE v

RECURSIVE NatToStr(_)
NatToStr(n) ==
  IF n < 10 THEN <<Digits[n + 1]>>
  ELSE NatToStr(n \div 10) \o <<Digits[(n % 10) + 1]>>

\* f"{n}" for an int
IntToStr(n) == IF n < 0 THEN <<"-">> \o NatToStr(0 - n) ELSE NatToStr(n)

\* s < t for str: lexicographic by code point
RECURSIVE StrLess(_, _)
StrLess(s, t) ==
  IF t = <<>> THEN FALSE
  ELSE IF s = <<>> THEN TRUE
  ELSE IF Head(s) = Head(t) THEN StrLess(Tail(s), Tail(t))
  ELSE Ord[Head(s)] < Ord[Head(t)]

\* sep.join(fields)
RECURSIVE Join(_, _)
Join(fields, sep) ==
  IF fields = <<>> THEN <<>>
  ELSE IF Len(fields) = 1 THEN fields[1]
  ELSE fields[1] \o <<sep>> \o Join(Tail(fields), sep)


(***************************************************************************)
(* PROTOCOL_MAP: IANA protocol number (as text) to lowercase name.         *)
(***************************************************************************)
PROTOCOL_MAP ==
  (<<"0">> :> <<"h", "o", "p", "o", "p", "t">>) @@
  (<<"1">> :> <<"i", "c", "m", "p">>) @@
  (<<"2">> :> <<"i", "g", "m", "p">>) @@
  (<<"3">> :> <<"g", "g", "p">>) @@
  (<<"4">> :> <<"i", "p", "v", "4">>) @@
  (<<"5">> :> <<"s", "t">>) @@
  (<<"6">> :> <<"t", "c", "p">>) @@
  (<<"1", "7">> :> <<"u", "d", "p">>) @@
  (<<"4", "1">> :> <<"i", "p", "v", "6">>) @@
  (<<"4", "3">> :> <<"i", "p", "v", "6", "-", "r", "o", "u", "t", "e">>) @@
  (<<"4", "4">> :> <<"i", "p", "v", "6", "-", "f", "r", "a", "g">>) @@
  (<<"4", "7">> :> <<"g", "r", "e">>) @@
  (<<"5", "0">> :> <<"e", "s", "p">>) @@
  (<<"5", "1">> :> <<"a", "h">>) @@
  (<<"5", "8">> :> <<"i", "p", "v", "6", "-", "i", "c", "m", "p">>) @@
  (<<"8", "9">> :> <<"o", "s", "p", "f">>) @@
  (<<"1", "0", "3">> :> <<"p", "i", "m">>) @@
  (<<"1", "3", "2">> :> <<"s", "c", "t", "p">>)

\* ResolveProtocol with the table left out: protocol.lower() alone
ResolveProtocol_NameOnly(protocol) == Lower(protocol)

\* PROTOCOL_MAP.get(protocol, protocol.lower())
ResolveProtocol(protocol) ==
  IF protocol \in DOMAIN PROTOCOL_MAP THEN PROTOCOL_MAP[protocol]
  ELSE Lower(protocol)

(***************************************************************************)
(* The files the program is run on.  A file is the sequence of its lines   *)
(* (the line terminator, which strip() removes, is left out).              *)
(***************************************************************************)
LookupHeader == <<"d", "s", "t", "p", "o", "r", "t", ",", "p", "r", "o", "t", "o", "c", "o", "l", ",", "t", "a", "g">>

\* the rows a lookup table is made of: well-formed rows in several letter
\* cases and spacings, a tag spelled like the sentinel, a negative port with
\* an extra field, a row with two fields, and the header row (whose port
\* field is no integer)
LookupLines ==
  { LookupHeader,
    <<"8", "0", ",", "T", "C", "P", ",", "w", "e", "b">>,
    <<" ", "8", "0", " ", ",", " ", "t", "c", "p", " ", ",", " ", "h", "t", "t", "p">>,
    <<"2", "2", ",", "U", "D", "P", ",", "U", "n", "t", "a", "g", "g", "e", "d">>,
    <<"-", "1", ",", "t", "c", "p", ",", "n", "e", "g", ",", "e", "x", "t", "r", "a">>,
    <<"8", "0", ",", "t", "c", "p">> }

\* a flow-log row of 14 fields with the given destination port and protocol
FlowRecord(dstport, protocol) ==
  Join(<< <<"2">>, <<"1">>, <<"e">>, <<"s">>, <<"d">>, <<"9">>,
          dstport, protocol,
          <<"1">>, <<"5">>, <<"0">>, <<"7">>, <<"A">>, <<"O">> >>, " ")

\* the rows a flow log is made of: protocol numbers and names, a row with
\* more fields and wider gaps, an unregistered number, the header row
\* (14 fields, whose port field is no integer) and a row of 4 fields
LogLines ==
  { FlowRecord(<<"8", "0">>, <<"6">>),
    FlowRecord(<<"8", "0">>, <<"U", "D", "P">>),
    FlowRecord(<<"2", "2">>, <<"1", "7">>) \o <<" ", " ", "x", " ">>,
    FlowRecord(<<"9">>, <<"9", "9">>),
    FlowRecord(<<"d", "s", "t", "p", "o", "r", "t">>, <<"p", "r", "o", "t", "o", "c", "o", "l">>),
    <<"2", " ", "1", " ", "8", "0", " ", "6">> }

RECURSIVE SeqsUpTo(_, _)
\* the sequences of at most n elements of S
SeqsUpTo(S, n) ==
  IF n = 0 THEN {<<>>}
  ELSE LET shorter == SeqsUpTo(S, n - 1)
       IN  shorter \cup {Append(f, x) : f \in shorter, x \in S}

LookupFiles == SeqsUpTo(LookupLines, MaxLookupLines)

LogFiles == SeqsUpTo(LogLines, MaxLogLines)

(***************************************************************************)
(* The state of one run.                                                   *)
(***************************************************************************)
VARIABLES
  pc,                    \* where the run is: "init", "lookup", "ready",
                         \* "parsing", "parsed", "written", "exit"
  has_headers,           \* self.has_headers
  port_rule_dictionary,  \* self.port_rule_dictionary: (port, protocol) -> tags
  lookup_text,           \* f.readlines() of the lookup table
  lines,                 \* parse_lookup_table's lines, the header dropped
  idx,                   \* the next element of lines the for loop takes
  log_text,              \* the lines of the flow-log file
  pos,                   \* the next line the file iterator yields
  tag_count,             \* log_parser's tag_count: tag -> count
  port_protocol_count,   \* log_parser's port_protocol_count, a dict in
                         \* insertion order: entries (port, protocol, count)
  output,                \* the lines write_results wrote
  logged,                \* what the last step gave the logger, or "none"
  raised                 \* the exception an outer handler caught, or "none"

vars ==
  << pc, has_headers, port_rule_dictionary, lookup_text, lines, idx,
     log_text, pos, tag_count, port_protocol_count, output, logged, raised >>

Untagged == <<"U", "n", "t", "a", "g", "g", "e", "d">>

\* an empty dict
EmptyDict == [k \in {} |-> 0]

\* lines[1:]
DropFirst(ls) == IF ls = <<>> THEN <<>> ELSE Tail(ls)

(***************************************************************************)
(* parse_lookup_table                                                      *)
(***************************************************************************)
\* row = [field.strip() for field in line.strip().split(',')]
LookupRow(line) ==
  LET raw == SplitOn(Strip(line), ",")
  IN  [i \in 1..Len(raw) |-> Strip(raw[i])]

\* what the body of the for loop does with one row:
\* "short" (fewer than 3 fields), "error" (int() raised), or "added"
LookupOutcome(row) ==
  IF Len(row) < 3 THEN "short"
  ELSE IF ~IsIntLiteral(row[1]) THEN "error"
  ELSE "added"

\* key = (port, protocol) of a row that is added
LookupKey(row) == <<IntOf(row[1]), Lower(row[2])>>

\* tag of a row that is added
LookupTag(row) == row[3]

\* AddRule with the set replaced, not added to: d[key] = {tag}
AddRule_Overwrite(d, key, tag) ==
  IF key \in DOMAIN d THEN [d EXCEPT ![key] = {tag}]
  ELSE d @@ (key :> {tag})

\* if key not in d: d[key] = set();  d[key].add(tag)
AddRule(d, key, tag) ==
  IF key \in DOMAIN d THEN [d EXCEPT ![key] = @ \cup {tag}]
  ELSE d @@ (key :> {tag})

\* the rule index after the loop body has run on row
ParseLookupLine(d, row) ==
  IF LookupOutcome(row) = "added"
  THEN AddRule(d, LookupKey(row), LookupTag(row))
  ELSE d

\* the logger call of the loop body
LookupLogged(row) ==
  IF LookupOutcome(row) = "added" THEN "none" ELSE "warning"

\* port_rule_dictionary after the loop has run on these rows, in order
RECURSIVE BuildIndex(_)
BuildIndex(rows) ==
  IF rows = <<>> THEN EmptyDict
  ELSE ParseLookupLine(BuildIndex(SubSeq(rows, 1, Len(rows) - 1)),
                       rows[Len(rows)])

\* __init__ calls parse_lookup_table, which opens and reads the file
OpenLookup ==
  /\ pc = "init"
  /\ \E text \in LookupFiles :
       /\ lookup_text' = text
       /\ lines' = IF has_headers THEN DropFirst(text) ELSE text
  /\ idx' = 1
  /\ pc' = "lookup"
  /\ logged' = "none"
  /\ UNCHANGED << has_headers, port_rule_dictionary, log_text, pos,
                  tag_count, port_protocol_count, output, raised >>

\* open() or readlines() raises: logger.error, sys.exit(1)
OpenLookupFails ==
  /\ pc = "init"
  /\ \E e \in {"FileNotFoundError", "OSError"} : raised' = e
  /\ pc' = "exit"
  /\ logged' = "error"
  /\ UNCHANGED << has_headers, port_rule_dictionary, lookup_text, lines, idx,
                  log_text, pos, tag_count, port_protocol_count, output >>

\* one pass of "for line in lines"
LookupLine ==
  /\ pc = "lookup"
  /\ idx <= Len(lines)
  /\ LET row == LookupRow(lines[idx])
     IN  /\ port_rule_dictionary' = ParseLookupLine(port_rule_dictionary, row)
         /\ logged' = LookupLogged(row)
  /\ idx' = idx + 1
  /\ UNCHANGED << pc, has_headers, lookup_text, lines, log_text, pos,
                  tag_count, port_protocol_count, output, raised >>

\* the loop is over: the file is closed, the locals are gone, __init__ returns
LookupReturn ==
  /\ pc = "lookup"
  /\ idx > Len(lines)
  /\ pc' = "ready"
  /\ lookup_text' = <<>>
  /\ lines' = <<>>
  /\ idx' = 0
  /\ logged' = "none"
  /\ UNCHANGED << has_headers, port_rule_dictionary, log_text, pos,
                  tag_count, port_protocol_count, output, raised >>

(***************************************************************************)
(* log_parser                                                              *)
(***************************************************************************)
\* fields = line.strip().split()
LogFields(line) == SplitWs(Strip(line))

\* what the body of the for loop does with the fields of one line:
\* "short" (fewer than 14 fields), "error" (int() raised), or "counted"
LogOutcome(fields) ==
  IF Len(fields) < 14 THEN "short"
  ELSE IF ~IsIntLiteral(fields[7]) THEN "error"
  ELSE "counted"

\* (dst_port, protocol) of a record that is counted
LogKey(fields) == <<IntOf(fields[7]), ResolveProtocol(fields[8])>>

\* self.port_rule_dictionary.get(key, set())
RuleTags(d, key) == IF key \in DOMAIN d THEN d[key] ELSE {}

\* CountedTags with one tag of the set picked, not all of them
CountedTags_OnePick(d, key) ==
  IF RuleTags(d, key) # {} THEN {CHOOSE t \in RuleTags(d, key) : TRUE}
  ELSE {Untagged}

\* the tags whose count a record with this key adds to
CountedTags(d, key) ==
  IF RuleTags(d, key) # {} THEN RuleTags(d, key) ELSE {Untagged}

\* tag_count[tag] += 1 for every tag of tags (tag_count is a defaultdict(int))
IncrTags(tc, tags) ==
  [t \in (DOMAIN tc) \cup tags |->
     (IF t \in DOMAIN tc THEN tc[t] ELSE 0) + (IF t \in tags THEN 1 ELSE 0)]

\* IncrPair with a pair counted once only: a key already there is left alone
IncrPair_FirstOnly(ppc, key) ==
  IF \E i \in 1..Len(ppc) : ppc[i].port = key[1] /\ ppc[i].protocol = key[2]
  THEN ppc
  ELSE Append(ppc, [port |-> key[1], protocol |-> key[2], count |-> 1])

\* port_protocol_count[key] += 1: a new key goes last
IncrPair(ppc, key) ==
  IF \E i \in 1..Len(ppc) : ppc[i].port = key[1] /\ ppc[i].protocol = key[2]
  THEN [i \in 1..Len(ppc) |->
          IF ppc[i].port = key[1] /\ ppc[i].protocol = key[2]
          THEN [ppc[i] EXCEPT !.count = @ + 1]
          ELSE ppc[i]]
  ELSE Append(ppc, [port |-> key[1], protocol |-> key[2], count |-> 1])

\* ParseLogLineTags with a skipped line counted as "Untagged"
ParseLogLineTags_SkippedIsUntagged(tc, d, fields) ==
  IF LogOutcome(fields) = "counted"
  THEN IncrTags(tc, CountedTags(d, LogKey(fields)))
  ELSE IncrTags(tc, {Untagged})

\* tag_count after the loop body has run on the fields of a line
ParseLogLineTags(tc, d, fields) ==
  IF LogOutcome(fields) = "counted"
  THEN IncrTags(tc, CountedTags(d, LogKey(fields)))
  ELSE tc

\* ParseLogLinePairs with the pair counted only when the record has a rule
ParseLogLinePairs_TaggedOnly(ppc, fields) ==
  IF /\ LogOutcome(fields) = "counted"
     /\ RuleTags(port_rule_dictionary, LogKey(fields)) # {}
  THEN IncrPair(ppc, LogKey(fields))
  ELSE ppc

\* port_protocol_count after the loop body has run on the fields of a line
ParseLogLinePairs(ppc, fields) ==
  IF LogOutcome(fields) = "counted" THEN IncrPair(ppc, LogKey(fields)) ELSE ppc

\* the logger call of the loop body
LogLogged(fields) ==
  IF LogOutcome(fields) = "counted" THEN "none" ELSE "warning"

\* tag_count after the loop has run on these lines' fields, in order
RECURSIVE CountTags(_, _)
CountTags(d, rows) ==
  IF rows = <<>> THEN EmptyDict
  ELSE ParseLogLineTags(CountTags(d, SubSeq(rows, 1, Len(rows) - 1)), d,
                        rows[Len(rows)])

\* port_protocol_count after the loop has run on these lines' fields, in order
RECURSIVE CountPairs(_)
CountPairs(rows) ==
  IF rows = <<>> THEN <<>>
  ELSE ParseLogLinePairs(CountPairs(SubSeq(rows, 1, Len(rows) - 1)),
                         rows[Len(rows)])

\* next(file) on a file with no line raises StopIteration, which the outer
\* "except Exception" takes: logger.error, sys.exit(1)
HeaderSkipRaises(skip, text) == skip /\ text = <<>>

\* log_parser opens the file and, with has_headers, takes the first line
OpenLog ==
  /\ pc = "ready"
  /\ \E text \in LogFiles :
       /\ log_text' = text
       /\ IF HeaderSkipRaises(has_headers, text)
          THEN /\ pc' = "exit"
               /\ raised' = "StopIteration"
               /\ logged' = "error"
               /\ pos' = pos
          ELSE /\ pc' = "parsing"
               /\ raised' = raised
               /\ logged' = "none"
               /\ pos' = IF has_headers THEN 2 ELSE 1
  /\ tag_count' = EmptyDict
  /\ port_protocol_count' = <<>>
  /\ UNCHANGED << has_headers, port_rule_dictionary, lookup_text, lines, idx,
                  output >>

\* open() or reading a line raises: logger.error, sys.exit(1)
OpenLogFails ==
  /\ pc = "ready"
  /\ \E e \in {"FileNotFoundError", "OSError"} : raised' = e
  /\ pc' = "exit"
  /\ logged' = "error"
  /\ UNCHANGED << has_headers, port_rule_dictionary, lookup_text, lines, idx,
                  log_text, pos, tag_count, port_protocol_count, output >>

\* one pass of "for line in file"
LogLine ==
  /\ pc = "parsing"
  /\ pos <= Len(log_text)
  /\ LET fields == LogFields(log_text[pos])
     IN  /\ tag_count' = ParseLogLineTags(tag_count, port_rule_dictionary, fields)
         /\ port_protocol_count' = ParseLogLinePairs(port_protocol_count, fields)
         /\ logged' = LogLogged(fields)
  /\ pos' = pos + 1
  /\ UNCHANGED << pc, has_headers, port_rule_dictionary, lookup_text, lines,
                  idx, log_text, output, raised >>

\* return dict(tag_count), dict(port_protocol_count)
LogReturn ==
  /\ pc = "parsing"
  /\ pos > Len(log_text)
  /\ pc' = "parsed"
  /\ logged' = "none"
  /\ UNCHANGED << has_headers, port_rule_dictionary, lookup_text, lines, idx,
                  log_text, pos, tag_count, port_protocol_count, output,
                  raised >>

(***************************************************************************)
(* write_results                                                           *)
(***************************************************************************)
\* (tag1, count1) < (tag2, count2), as Python compares tuples
ItemLess(t1, c1, t2, c2) == StrLess(t1, t2) \/ (t1 = t2 /\ c1 < c2)

\* the tags of sorted(tag_count.items()), in that order
RECURSIVE SortedTags(_, _)
SortedTags(tc, S) ==
  IF S = {} THEN <<>>
  ELSE LET m == CHOOSE t \in S :
                  \A u \in S \ {t} : ItemLess(t, tc[t], u, tc[u])
       IN  <<m>> \o SortedTags(tc, S \ {m})

\* f"{tag},{count}"
TagRow(tag, count) == tag \o <<",">> \o IntToStr(count)

\* the loop over PROTOCOL_MAP.items() that sets protocol_name
ProtocolName(protocol) ==
  IF \E k \in DOMAIN PROTOCOL_MAP : PROTOCOL_MAP[k] = protocol
  THEN PROTOCOL_MAP[CHOOSE k \in DOMAIN PROTOCOL_MAP : PROTOCOL_MAP[k] = protocol]
  ELSE protocol

\* sorted_counts: one (port, protocol_name, count) per entry, in dict order
SortedCounts(ppc) ==
  [i \in 1..Len(ppc) |-> [ppc[i] EXCEPT !.protocol = ProtocolName(@)]]

\* InsertByPort with e put before the entries of its own port: not stable
InsertByPort_BeforeEqual(sorted, e) ==
  LET k == Cardinality({i \in 1..Len(sorted) : sorted[i].port < e.port})
  IN  SubSeq(sorted, 1, k) \o <<e>> \o SubSeq(sorted, k + 1, Len(sorted))

\* where a stable sort by port puts e in a list already sorted:
\* behind every entry whose port is not greater
InsertByPort(sorted, e) ==
  LET k == Cardinality({i \in 1..Len(sorted) : sorted[i].port <= e.port})
  IN  SubSeq(sorted, 1, k) \o <<e>> \o SubSeq(sorted, k + 1, Len(sorted))

\* sorted(sorted_counts, key=lambda x: int(x[0]))
RECURSIVE SortedByPort(_)
SortedByPort(seq) ==
  IF seq = <<>> THEN <<>>
  ELSE InsertByPort(SortedByPort(SubSeq(seq, 1, Len(seq) - 1)), seq[Len(seq)])

\* f"{port},{protocol},{count}"
PortRow(e) ==
  IntToStr(e.port) \o <<",">> \o e.protocol \o <<",">> \o IntToStr(e.count)

TagCountsTitle == <<"T", "a", "g", " ", "C", "o", "u", "n", "t", "s", ":">>
TagCountsHeader == <<"T", "a", "g", ",", "C", "o", "u", "n", "t">>
PortCountsTitle == <<"P", "o", "r", "t", "/", "P", "r", "o", "t", "o", "c", "o", "l", " ", "C", "o", "m", "b", "i", "n", "a", "t", "i", "o", "n", " ", "C", "o", "u", "n", "t", "s", ":">>
PortCountsHeader == <<"P", "o", "r", "t", ",", "P", "r", "o", "t", "o", "c", "o", "l", ",", "C", "o", "u", "n", "t">>

\* everything write_results writes, line by line
Render(tc, ppc) ==
  LET tags  == SortedTags(tc, DOMAIN tc)
      pairs == SortedByPort(SortedCounts(ppc))
  IN  <<TagCountsTitle, TagCountsHeader>>
      \o [i \in 1..Len(tags) |-> TagRow(tags[i], tc[tags[i]])]
      \o << <<>> >>
      \o <<PortCountsTitle, PortCountsHeader>>
      \o [i \in 1..Len(pairs) |-> PortRow(pairs[i])]

WriteResults ==
  /\ pc = "parsed"
  /\ output' = Render(tag_count, port_protocol_count)
  /\ pc' = "written"
  /\ logged' = "none"
  /\ UNCHANGED << has_headers, port_rule_dictionary, lookup_text, lines, idx,
                  log_text, pos, tag_count, port_protocol_count, raised >>

\* open() or write() raises: logger.error, sys.exit(1)
WriteResultsFails ==
  /\ pc = "parsed"
  /\ raised' = "OSError"
  /\ pc' = "exit"
  /\ logged' = "error"
  /\ UNCHANGED << has_headers, port_rule_dictionary, lookup_text, lines, idx,
                  log_text, pos, tag_count, port_protocol_count, output >>

(***************************************************************************)
(* The run: main() constructs the analyzer, parses the log, writes.        *)
(***************************************************************************)
Init ==
  /\ pc = "init"
  /\ has_headers \in BOOLEAN
  /\ port_rule_dictionary = EmptyDict
  /\ lookup_text = <<>>
  /\ lines = <<>>
  /\ idx = 0
  /\ log_text = <<>>
  /\ pos = 0
  /\ tag_count = EmptyDict
  /\ port_protocol_count = <<>>
  /\ output = <<>>
  /\ logged = "none"
  /\ raised = "none"

Next ==
  \/ OpenLookup
  \/ OpenLookupFails
  \/ LookupLine
  \/ LookupReturn
  \/ OpenLog
  \/ OpenLogFails
  \/ LogLine
  \/ LogReturn
  \/ WriteResults
  \/ WriteResultsFails

Spec == Init /\ [][Next]_vars

(***************************************************************************)
(* What the properties below speak of: the rows of the two files, read     *)
(* from the text itself.                                                   *)
(***************************************************************************)
\* the first line of a file that is data
FirstData == IF has_headers THEN 2 ELSE 1

\* the lines of the lookup table the loop has gone through
LookupDone ==
  IF pc = "lookup" THEN FirstData..(FirstData + idx - 2) ELSE {}

\* the lines of the flow log the loop has gone through
LogDone ==
  IF pc \in {"parsing", "parsed", "written"} THEN FirstData..(pos - 1) ELSE {}

\* the comma-separated fields of a lookup row: at least 3, the first an integer
WellFormedRule(f) == Len(f) >= 3 /\ IsIntLiteral(f[1])

\* the whitespace-separated fields of a log row: at least 14, an integer
\* at index 6
WellFormedRecord(f) == Len(f) >= 14 /\ IsIntLiteral(f[7])

\* the protocol a token stands for: its name in PROTOCOL_MAP when it is a
\* key of it, else the token in lowercase
Resolved(token) ==
  IF token \in DOMAIN PROTOCOL_MAP THEN PROTOCOL_MAP[token] ELSE Lower(token)

\* line i of the lookup table read as a rule: whether it is well formed,
\* and if so its key, its tag and its protocol as written
RuleAt(i) ==
  LET f == SplitOn(Strip(lookup_text[i]), ",")
  IN  IF WellFormedRule(f)
      THEN [line |-> i, ok |-> TRUE,
            key |-> <<IntOf(f[1]), Lower(Strip(f[2]))>>,
            tag |-> Strip(f[3]), protocol |-> Strip(f[2])]
      ELSE [line |-> i, ok |-> FALSE, key |-> <<>>, tag |-> <<>>,
            protocol |-> <<>>]

\* line i of the flow log read as a record: whether it is well formed, how
\* many fields it has, and if well formed its port, protocol token and key
RecordAt(i) ==
  LET f == SplitWs(log_text[i])
  IN  IF WellFormedRecord(f)
      THEN [line |-> i, ok |-> TRUE, fields |-> Len(f), port |-> IntOf(f[7]),
            token |-> f[8], key |-> <<IntOf(f[7]), Resolved(f[8])>>]
      ELSE [line |-> i, ok |-> FALSE, fields |-> Len(f), port |-> 0,
            token |-> <<>>, key |-> <<>>]

\* the lines gone through, and the well-formed ones among them
RuleLines == {RuleAt(i) : i \in LookupDone}

Rules == {r \in RuleLines : r.ok}

RecordLines == {RecordAt(i) : i \in LogDone}

Records == {r \in RecordLines : r.ok}

\* a count mapping read at a key it may not hold
CountOf(tc, t) == IF t \in DOMAIN tc THEN tc[t] ELSE 0

\* the pairs port_protocol_count holds
Pairs(ppc) == {<<ppc[n].port, ppc[n].protocol>> : n \in 1..Len(ppc)}

\* the count port_protocol_count holds for a pair
PairCount(ppc, key) ==
  IF key \in Pairs(ppc)
  THEN ppc[CHOOSE i \in 1..Len(ppc) : <<ppc[i].port, ppc[i].protocol>> = key].count
  ELSE 0

RECURSIVE SumTags(_, _)
SumTags(tc, S) ==
  IF S = {} THEN 0
  ELSE LET t == CHOOSE x \in S : TRUE IN tc[t] + SumTags(tc, S \ {t})

RECURSIVE SumPairs(_)
SumPairs(ppc) == IF ppc = <<>> THEN 0 ELSE Head(ppc).count + SumPairs(Tail(ppc))

Tcp == <<"t", "c", "p">>

Udp == <<"u", "d", "p">>

(***************************************************************************)
(* C1                                                                      *)
(***************************************************************************)
\* C1: while and after parse_lookup_table goes through the rows, the rule
\* index holds exactly the keys (int(field 0), lowercase of field 1) of the
\* well-formed non-header rows gone through, each key mapped to the set of
\* the tags (field 2) of all those rows: rows that differ in letter case
\* share a key (no key holds an uppercase letter), tags accumulate by union,
\* and no key is there that no well-formed row gave.
C1_IndexIsUnionOfValidRows ==
  pc = "lookup" =>
    LET R == Rules
    IN  /\ DOMAIN port_rule_dictionary = {r.key : r \in R}
        /\ \A k \in DOMAIN port_rule_dictionary :
             /\ port_rule_dictionary[k] = {r.tag : r \in {x \in R : x.key = k}}
             /\ \A n \in 1..Len(k[2]) : k[2][n] \notin UpperCase

\* the whole table is read; two rows whose protocols differ in letter case
\* gave one key two tags, and a malformed row was gone through
C1_Witness ==
  /\ pc = "lookup"
  /\ idx > Len(lines)
  /\ \E r, q \in Rules :
       /\ r.protocol # q.protocol
       /\ r.key = q.key
       /\ r.tag # q.tag
       /\ Cardinality(port_rule_dictionary[r.key]) >= 2
  /\ \E r \in RuleLines : ~r.ok

(***************************************************************************)
(* C2                                                                      *)
(***************************************************************************)
\* C2: the pairs counted are exactly the pairs (port, resolved protocol) of
\* the well-formed records gone through, where a token of PROTOCOL_MAP
\* resolves to its name ("6" to tcp, "17" to udp) and any other token to
\* its lowercase; and a record with token "6" whose port has a tcp rule
\* adds to every tag of that rule.
C2_ProtocolResolved ==
  pc \in {"parsing", "parsed"} =>
    LET R == Records
        counted == Pairs(port_protocol_count)
    IN  /\ counted = {r.key : r \in R}
        /\ \A r \in R :
             /\ r.token = <<"6">> =>
                  /\ <<r.port, Tcp>> \in counted
                  /\ <<r.port, Tcp>> \in DOMAIN port_rule_dictionary =>
                       \A t \in port_rule_dictionary[<<r.port, Tcp>>] :
                         CountOf(tag_count, t) >= 1
             /\ r.token = <<"1", "7">> => <<r.port, Udp>> \in counted

\* a record with token "6" met a tcp rule, and a record with a token that
\* is no key of PROTOCOL_MAP and holds uppercase letters was counted
C2_Witness ==
  /\ pc = "parsed"
  /\ \E r \in Records :
       /\ r.token = <<"6">>
       /\ <<r.port, Tcp>> \in DOMAIN port_rule_dictionary
  /\ \E r \in Records :
       /\ r.token \notin DOMAIN PROTOCOL_MAP
       /\ Lower(r.token) # r.token

(***************************************************************************)
(* C3                                                                      *)
(***************************************************************************)
\* log_parser is about to run the loop body on the line at pos
AtLogLine == pc = "parsing" /\ pos <= Len(log_text)

\* C3: a step on a well-formed record whose key has a non-empty tag set
\* adds exactly 1 to the count of every tag of the set and changes no other
\* tag count.
C3_FanOutToEveryTag ==
  [][ AtLogLine =>
        LET r == RecordAt(pos)
            tags == RuleTags(port_rule_dictionary, r.key)
        IN  (r.ok /\ tags # {}) =>
              \A t \in (DOMAIN tag_count) \cup (DOMAIN tag_count') \cup tags :
                CountOf(tag_count', t) =
                  CountOf(tag_count, t) + (IF t \in tags THEN 1 ELSE 0)
    ]_vars

\* the record just gone through has a key with two tags or more
C3_Witness ==
  /\ pc = "parsing"
  /\ pos - 1 \in LogDone
  /\ LET r == RecordAt(pos - 1)
         tags == RuleTags(port_rule_dictionary, r.key)
     IN  /\ r.ok
         /\ Cardinality(tags) >= 2
         /\ \A t \in tags : CountOf(tag_count, t) >= 1

(***************************************************************************)
(* C4                                                                      *)
(***************************************************************************)
\* C4: a step on a well-formed record whose key has no rule (or an empty
\* tag set) adds exactly 1 to the count of "Untagged", changes no other tag
\* count, and adds 1 to the count of the record's (port, protocol) pair.
C4_UnmatchedGoesToUntagged ==
  [][ AtLogLine =>
        LET r == RecordAt(pos)
        IN  (r.ok /\ RuleTags(port_rule_dictionary, r.key) = {}) =>
              /\ \A t \in (DOMAIN tag_count) \cup (DOMAIN tag_count')
                          \cup {Untagged} :
                   CountOf(tag_count', t) =
                     CountOf(tag_count, t) + (IF t = Untagged THEN 1 ELSE 0)
              /\ PairCount(port_protocol_count', r.key) =
                   PairCount(port_protocol_count, r.key) + 1
    ]_vars

\* the record just gone through has no rule, though the index has rules
C4_Witness ==
  /\ pc = "parsing"
  /\ pos - 1 \in LogDone
  /\ LET r == RecordAt(pos - 1)
     IN  /\ r.ok
         /\ r.key \notin DOMAIN port_rule_dictionary
         /\ PairCount(port_protocol_count, r.key) >= 1
  /\ port_rule_dictionary # EmptyDict
  /\ CountOf(tag_count, Untagged) >= 1

(***************************************************************************)
(* C5                                                                      *)
(***************************************************************************)
\* the state holds what the program computes from the lines gone through
\* with the malformed ones taken out
SameAsWithoutMalformed ==
  /\ pc = "lookup" =>
       LET rows == [n \in 1..(idx - 1) |->
                      LookupRow(lookup_text[FirstData + n - 1])]
       IN  port_rule_dictionary = BuildIndex(SelectSeq(rows, WellFormedRule))
  /\ pc \in {"parsing", "parsed"} =>
       LET rows == [n \in 1..(pos - FirstData) |->
                      LogFields(log_text[FirstData + n - 1])]
           clean == SelectSeq(rows, WellFormedRecord)
       IN  /\ tag_count = CountTags(port_rule_dictionary, clean)
           /\ port_protocol_count = CountPairs(clean)

\* the run is never ended from inside one of the two loops
ExitOutsideLoops ==
  pc = "exit" => idx = 0 /\ (pos = 0 \/ pos > Len(log_text))

\* C5: malformed lines are absorbed.  The rule index and the two count
\* mappings are at every point what the program computes from the lines
\* gone through with the malformed ones (a lookup row with fewer than 3
\* fields or a non-integer port, a log row with fewer than 14 fields or a
\* non-integer field 6) taken out, and no line ends the run: the run is
\* ended only before a loop has begun or after it is over, and nothing is
\* raised while a loop runs.
C5_MalformedLinesAbsorbed ==
  /\ SameAsWithoutMalformed
  /\ ExitOutsideLoops
  /\ pc \in {"lookup", "ready", "parsing", "parsed", "written"} => raised = "none"

\* rules were built, and records were counted though the log held
\* malformed rows of both kinds
C5_Witness ==
  /\ pc = "parsed"
  /\ port_rule_dictionary # EmptyDict
  /\ port_protocol_count # <<>>
  /\ \E r \in RecordLines : r.fields < 14
  /\ \E r \in RecordLines : r.fields >= 14 /\ ~r.ok

(***************************************************************************)
(* C6                                                                      *)
(***************************************************************************)
\* the rows of the two sections of the report
BlankLine == Find(output, <<>>, 1)

TagRows == SubSeq(output, 3, BlankLine - 1)

PortRows == SubSeq(output, BlankLine + 3, Len(output))

\* C6: the report holds one row per entry of each count mapping: the row
\* tag,count of every tag at the place its tag has in ascending lexical
\* order, and the row port,protocol,count of every pair at the place it has
\* when the pairs are put in ascending numeric order of port, pairs of one
\* port in the order in which the log first showed them.
C6_ReportSorted ==
  pc = "written" =>
    LET R == Records
        ppc == port_protocol_count
        first == [n \in 1..Len(ppc) |->
                    CHOOSE i \in LogDone :
                      /\ \E r \in R :
                           r.line = i /\ r.key = <<ppc[n].port, ppc[n].protocol>>
                      /\ \A r \in R :
                           r.key = <<ppc[n].port, ppc[n].protocol>> => i <= r.line]
        place == [n \in 1..Len(ppc) |->
                    1 + Cardinality({m \in 1..Len(ppc) :
                          \/ ppc[m].port < ppc[n].port
                          \/ ppc[m].port = ppc[n].port /\ first[m] < first[n]})]
        rank == [t \in DOMAIN tag_count |->
                    1 + Cardinality({u \in DOMAIN tag_count : StrLess(u, t)})]
    IN  /\ Len(TagRows) = Cardinality(DOMAIN tag_count)
        /\ \A t \in DOMAIN tag_count :
             TagRows[rank[t]] = t \o <<",">> \o IntToStr(tag_count[t])
        /\ \A i, j \in 1..Len(TagRows) :
             i < j => StrLess(SplitOn(TagRows[i], ",")[1],
                              SplitOn(TagRows[j], ",")[1])
        /\ Len(PortRows) = Len(ppc)
        /\ \A n \in 1..Len(ppc) :
             PortRows[place[n]] =
               IntToStr(ppc[n].port) \o <<",">> \o ppc[n].protocol
                 \o <<",">> \o IntToStr(ppc[n].count)
        /\ \A i, j \in 1..Len(PortRows) :
             i < j => IntOf(SplitOn(PortRows[i], ",")[1])
                        <= IntOf(SplitOn(PortRows[j], ",")[1])

\* a report of several tags and of pairs that the log showed out of port
\* order, two of them of one port and out of protocol order, and with ports
\* whose order as numbers is not their order as text
C6_Witness ==
  /\ pc = "written"
  /\ Cardinality(DOMAIN tag_count) >= 2
  /\ LET ppc == port_protocol_count
     IN  /\ \E a, b \in 1..Len(ppc) : a < b /\ ppc[a].port > ppc[b].port
         /\ \E a, b \in 1..Len(ppc) :
              /\ a < b
              /\ ppc[a].port = ppc[b].port
              /\ StrLess(ppc[b].protocol, ppc[a].protocol)
         /\ \E a, b \in 1..Len(ppc) :
              /\ ppc[a].port < ppc[b].port
              /\ StrLess(IntToStr(ppc[b].port), IntToStr(ppc[a].port))

(***************************************************************************)
(* C7                                                                      *)
(***************************************************************************)
\* the tag counts the records of R add to: for each record one per tag of
\* its rule, one (the sentinel) when it has none
RECURSIVE FanOut(_)
FanOut(R) ==
  IF R = {} THEN 0
  ELSE LET r == CHOOSE x \in R : TRUE
           tags == RuleTags(port_rule_dictionary, r.key)
       IN  (IF tags = {} THEN 1 ELSE Cardinality(tags)) + FanOut(R \ {r})

\* C7: after any prefix of the log, the pair counts add up to the number of
\* well-formed records gone through, and the tag counts add up to at least
\* that number: to one per record, plus one for every further tag of a
\* record whose key has several tags.
C7_Accounting ==
  pc \in {"parsing", "parsed"} =>
    LET R == Records
        n == Cardinality(R)
        tags == SumTags(tag_count, DOMAIN tag_count)
    IN  /\ SumPairs(port_protocol_count) = n
        /\ tags >= n
        /\ tags = FanOut(R)

\* a malformed line and two records of one pair were gone through, one
\* record of a key with several tags
C7_Witness ==
  /\ pc = "parsing"
  /\ \E r \in RecordLines : ~r.ok
  /\ \E n \in 1..Len(port_protocol_count) : port_protocol_count[n].count >= 2
  /\ SumTags(tag_count, DOMAIN tag_count) > Cardinality(Records)

(***************************************************************************)
(* C8                                                                      *)
(***************************************************************************)
\* C8: every key of the rule index has a non-negative port (a row whose
\* port is a negative number adds no key).
C8_PortsNonNegative ==
  \A k \in DOMAIN port_rule_dictionary : k[1] >= 0

(***************************************************************************)
(* C9                                                                      *)
(***************************************************************************)
\* C9: the run is ended (sys.exit(1)) only by a file that cannot be opened,
\* read or written; a log file that can be read, an empty one too, never
\* ends it.
C9_ExitOnlyOnResourceFailure ==
  pc = "exit" => raised \in {"FileNotFoundError", "OSError"}

(***************************************************************************)
(* C10                                                                     *)
(***************************************************************************)
\* C10: the count of "Untagged" (0 when absent) is the number of
\* well-formed records gone through whose key has no rule.
C10_UntaggedCountsUnmatched ==
  pc \in {"parsing", "parsed"} =>
    CountOf(tag_count, Untagged) =
      Cardinality({r \in Records : RuleTags(port_rule_dictionary, r.key) = {}})

====
